---- MODULE Spec2Model ----
(***************************************************************************)
(* Dockline data preparation scripts.                                      *)
(*                                                                         *)
(*   prepare_5ht_receptors.py  download a raw PDB file per receptor        *)
(*                             (cached by file name), keep one chain,      *)
(*                             drop water/heteroatom residues, save.       *)
(*   create_ligands.py         SMILES -> 3D conformer -> <name>.sdf        *)
(*                                                                         *)
(* Spec        runs of the receptor script over a persistent file system   *)
(* SpecClean   clean_pdb applied to every structure up to MaxAtoms atoms   *)
(* SpecLigand  runs of the ligand script                                   *)
(*                                                                         *)
(* A file is a record: exists, its atom records in file order, and torn    *)
(* (the last record is cut in the middle, which PDBParser rejects).        *)
(* The libraries (urllib, Bio.PDB, RDKit) are modelled by their outcomes   *)
(* at the call sites.                                                      *)
(***************************************************************************)
EXTENDS Integers, Sequences, FiniteSets, TLC

VARIABLES
    raw,        \* pdb_raw/<pdb_id>.pdb, by pdb_id
    clean,      \* pdb_clean/<name>_clean.pdb, by receptor name
    pc,         \* receptor script: "idle" | "loop" | "done" | "crashed"
    idx,        \* receptor script: position of the for loop (1-based)
    runs,       \* receptor script: runs started so far
    visited,    \* receptor names reached by the loop in the current run
    res,        \* outcome of the latest loop body executed for each name
    log,        \* lines printed by the latest loop body
    fetches,    \* urlretrieve calls issued so far, by pdb_id
    okFetched,  \* pdb_ids whose fetch has succeeded in some run
    structure,  \* SpecClean: the parsed structure handed to clean_pdb
    chain_id,   \* SpecClean: the chain selected
    saved,      \* SpecClean: what clean_pdb returned and wrote
    LIGANDS,    \* ligand script: the table, name -> SMILES string
    seeded,     \* RDKit: names whose molecule embeds with randomSeed = 42
    mmff,       \* RDKit: what MMFF does with each seeded conformer
    sdf,        \* <name>.sdf, by ligand name
    lpc,        \* ligand script: "idle" | "loop" | "done"
    lidx,       \* ligand script: position of the for loop (1-based)
    lruns,      \* ligand script: runs started so far
    lvisited,   \* ligand names reached by the loop in the current run
    lres,       \* what generate_3d_sdf returned at its latest call, by name
    call        \* the library calls and prints of the latest generate_3d_sdf

vars == <<raw, clean, pc, idx, runs, visited, res, log, fetches, okFetched,
          structure, chain_id, saved,
          LIGANDS, seeded, mmff, sdf, lpc, lidx, lruns, lvisited, lres, call>>

receptorVars == <<raw, clean, pc, idx, runs, visited, res, log, fetches, okFetched>>
cleanVars == <<structure, chain_id, saved>>
ligandVars == <<LIGANDS, seeded, mmff, sdf, lpc, lidx, lruns, lvisited, lres, call>>

----------------------------------------------------------------------------
(* Bounds *)

MaxRuns == 2

MaxAtoms == 3

RandomCoords == 2

----------------------------------------------------------------------------
(* Static table and file values *)

RECEPTORS ==
    << [name |-> "serotonin_5HT1A", pdb_id |-> "7E2X", chain |-> "R"],
       [name |-> "serotonin_5HT2A", pdb_id |-> "6WHA", chain |-> "A"],
       [name |-> "serotonin_5HT2B", pdb_id |-> "4IB4", chain |-> "A"] >>

Names == { RECEPTORS[i].name : i \in DOMAIN RECEPTORS }

PdbIds == { RECEPTORS[i].pdb_id : i \in DOMAIN RECEPTORS }

Chains == {"A", "R"}

\* residue.id[0] as Bio.PDB sets it: blank for ATOM records, "W" for water,
\* "H_<resname>" for other HETATM records
HetFields == {" ", "W", "H_LIG"}

Atom(m, c, h, n) == [model |-> m, chain |-> c, het |-> h, name |-> n]

Absent == [exists |-> FALSE, atoms |-> <<>>, torn |-> FALSE]

File(atoms, torn) == [exists |-> TRUE, atoms |-> atoms, torn |-> torn]

\* What files.rcsb.org holds for each identifier
ServerFile(pdb_id) ==
    CASE pdb_id = "7E2X" ->
           File(<<Atom(0, "A", " ", "CA"), Atom(0, "R", " ", "CA"), Atom(0, "R", "H_LIG", "C1")>>, FALSE)
      [] pdb_id = "6WHA" ->
           File(<<Atom(0, "A", " ", "CA"), Atom(0, "A", "W", "O"), Atom(0, "R", " ", "CA")>>, FALSE)
      [] OTHER ->
           File(<<Atom(0, "A", " ", "N"), Atom(0, "A", " ", "CA"), Atom(1, "A", " ", "N")>>, FALSE)

Prefix(s, k) == [i \in 1 .. k |-> s[i]]

----------------------------------------------------------------------------
(* ChainSelect *)

accept_model(model) == TRUE

accept_chain(self_chain_id, chain) == chain = self_chain_id

\* accept_residue rejecting water only
accept_residue_WaterOnly(hetfield) == hetfield # "W"

accept_residue(hetfield) == hetfield = " "

accept_atom(atom) == TRUE

\* PDBIO.save's nested loops over models, chains, residues, atoms: an atom is
\* written when every level it belongs to is accepted
Selected(self_chain_id, a) ==
    /\ accept_model(a.model)
    /\ accept_chain(self_chain_id, a.chain)
    /\ accept_residue(a.het)
    /\ accept_atom(a)

RECURSIVE Filter(_, _)
Filter(atoms, self_chain_id) ==
    IF atoms = <<>> THEN <<>>
    ELSE (IF Selected(self_chain_id, Head(atoms)) THEN <<Head(atoms)>> ELSE <<>>)
         \o Filter(Tail(atoms), self_chain_id)

----------------------------------------------------------------------------
(* download_pdb *)

\* Outcomes of urllib.request.urlretrieve(url, output_path): urlopen raises
\* before output_path is opened (unreachable host, HTTP error for an invalid
\* identifier), or the transfer breaks after output_path was opened for
\* writing and a prefix has been written, or it completes.
FetchOutcomes(pdb_id) ==
    { [kind |-> k, cut |-> 0, torn |-> FALSE] : k \in {"ok", "unreachable", "invalid"} }
    \cup { [kind |-> "truncated", cut |-> n, torn |-> t] :
             n \in 0 .. (Len(ServerFile(pdb_id).atoms) - 1), t \in BOOLEAN }

\* urlretrieve opening output_path before the connection is made
urlretrieve_OpensFirst(old, pdb_id, o) ==
    CASE o.kind = "ok" -> ServerFile(pdb_id)
      [] o.kind = "truncated" -> File(Prefix(ServerFile(pdb_id).atoms, o.cut), o.torn)
      [] OTHER -> File(<<>>, FALSE)

urlretrieve(old, pdb_id, o) ==
    CASE o.kind = "ok" -> ServerFile(pdb_id)
      [] o.kind = "truncated" -> File(Prefix(ServerFile(pdb_id).atoms, o.cut), o.torn)
      [] OTHER -> old

download_pdb(old, pdb_id, o) ==
    [ file |-> urlretrieve(old, pdb_id, o),
      ret  |-> o.kind = "ok",
      out  |-> IF o.kind = "ok" THEN {} ELSE {"Error downloading"} ]

----------------------------------------------------------------------------
(* clean_pdb *)

\* PDBParser.get_structure raises on a record it cannot read
ParseRaises(file) == file.torn

\* Outcomes of PDBIO.save(output_path, select): it completes, or it raises
\* before output_path is opened, or it raises after `cut` atoms were written
SaveOutcomes(n) ==
    { [kind |-> "ok", cut |-> n], [kind |-> "open_raises", cut |-> 0] }
    \cup { [kind |-> "write_raises", cut |-> k] : k \in 0 .. n }

\* PDBIO.save appending to output_path instead of replacing it
PDBIO_save_Append(old, atoms, self_chain_id, s) ==
    CASE s.kind = "ok" -> File(old.atoms \o Filter(atoms, self_chain_id), FALSE)
      [] s.kind = "write_raises" ->
           File(old.atoms \o Prefix(Filter(atoms, self_chain_id), s.cut), FALSE)
      [] OTHER -> old

PDBIO_save(old, atoms, self_chain_id, s) ==
    CASE s.kind = "ok" -> File(Filter(atoms, self_chain_id), FALSE)
      [] s.kind = "write_raises" -> File(Prefix(Filter(atoms, self_chain_id), s.cut), FALSE)
      [] OTHER -> old

\* ret: TRUE / FALSE as returned; raised: an exception left clean_pdb
clean_pdb(input, old, self_chain_id, s) ==
    IF ParseRaises(input)
    THEN [file |-> old, ret |-> FALSE, raised |-> FALSE, out |-> {"Error parsing PDB"}]
    ELSE [file |-> PDBIO_save(old, input.atoms, self_chain_id, s),
          ret |-> s.kind = "ok", raised |-> s.kind # "ok", out |-> {}]

----------------------------------------------------------------------------
(* main of prepare_5ht_receptors.py *)

\* the cache test always answering "not there"
RawExists_Never(fs, pdb_id) == FALSE

\* the cache test also asking for a complete file
RawExists_Intact(fs, pdb_id) == fs[pdb_id] = ServerFile(pdb_id)

RawExists(fs, pdb_id) == fs[pdb_id].exists

ReceptorInit ==
    /\ raw = [p \in PdbIds |-> Absent]
    /\ clean = [n \in Names |-> Absent]
    /\ pc = "idle"
    /\ idx = 1
    /\ runs = 0
    /\ visited = {}
    /\ res = [n \in Names |-> "none"]
    /\ log = {}
    /\ fetches = [p \in PdbIds |-> 0]
    /\ okFetched = {}

StartRun ==
    /\ pc \in {"idle", "done", "crashed"}
    /\ runs < MaxRuns
    /\ pc' = "loop"
    /\ idx' = 1
    /\ runs' = runs + 1
    /\ visited' = {}
    /\ log' = {"Downloading and preparing"}
    /\ UNCHANGED <<raw, clean, res, fetches, okFetched>>
    /\ UNCHANGED <<cleanVars, ligandVars>>

\* One pass of the for loop body, lines 95-120, under fetch outcome o
LoopBody(o) ==
    LET info == RECEPTORS[idx]
        name == info.name
        pdb_id == info.pdb_id
        cached == RawExists(raw, pdb_id)
        d == IF cached
             THEN [file |-> raw[pdb_id], ret |-> TRUE, out |-> {"Already downloaded"}]
             ELSE LET r == download_pdb(raw[pdb_id], pdb_id, o)
                  IN [r EXCEPT !.out = r.out \cup {"Downloading"}]
    IN /\ raw' = [raw EXCEPT ![pdb_id] = d.file]
       /\ fetches' = [fetches EXCEPT ![pdb_id] = IF cached THEN @ ELSE @ + 1]
       /\ okFetched' = IF ~cached /\ d.ret THEN okFetched \cup {pdb_id} ELSE okFetched
       /\ visited' = visited \cup {name}
       /\ IF ~d.ret
          THEN \* continue
               /\ clean' = clean
               /\ res' = [res EXCEPT ![name] = o.kind]
               /\ log' = d.out
               /\ idx' = idx + 1
               /\ pc' = pc
          ELSE \E s \in SaveOutcomes(Len(Filter(d.file.atoms, info.chain))) :
               LET c == clean_pdb(d.file, clean[name], info.chain, s)
               IN /\ clean' = [clean EXCEPT ![name] = c.file]
                  /\ IF c.raised
                     THEN /\ res' = [res EXCEPT ![name] = "raised"]
                          /\ log' = d.out \cup {"Cleaning"}
                          /\ idx' = idx
                          /\ pc' = "crashed"
                     ELSE /\ res' = [res EXCEPT ![name] = IF c.ret THEN "saved" ELSE "parse_failed"]
                          /\ log' = d.out \cup {"Cleaning"} \cup c.out
                                      \cup (IF c.ret THEN {"Saved"} ELSE {"FAILED to clean"})
                          /\ idx' = idx + 1
                          /\ pc' = pc

ProcessRecord ==
    /\ pc = "loop"
    /\ idx <= Len(RECEPTORS)
    /\ \E o \in FetchOutcomes(RECEPTORS[idx].pdb_id) : LoopBody(o)
    /\ UNCHANGED <<runs>>
    /\ UNCHANGED <<cleanVars, ligandVars>>

Finish ==
    /\ pc = "loop"
    /\ idx > Len(RECEPTORS)
    /\ pc' = "done"
    /\ log' = {"Done!"}
    /\ UNCHANGED <<raw, clean, idx, runs, visited, res, fetches, okFetched>>
    /\ UNCHANGED <<cleanVars, ligandVars>>

----------------------------------------------------------------------------
(* clean_pdb as a function: every structure of up to MaxAtoms atoms *)

AtomUniverse == { Atom(m, c, h, "CA") : m \in {0, 1}, c \in Chains, h \in HetFields }

RECURSIVE SeqsUpTo(_, _)
SeqsUpTo(S, n) ==
    IF n = 0 THEN { <<>> }
    ELSE LET shorter == SeqsUpTo(S, n - 1)
         IN shorter \cup { Append(q, x) : q \in { r \in shorter : Len(r) = n - 1 }, x \in S }

NotRun == [file |-> Absent, ret |-> FALSE, raised |-> FALSE, out |-> {"not run"}]

CleanIdle ==
    /\ structure = Absent
    /\ chain_id = "A"
    /\ saved = NotRun

CleanInit ==
    /\ structure \in { File(a, t) : a \in SeqsUpTo(AtomUniverse, MaxAtoms), t \in BOOLEAN }
    /\ chain_id \in Chains
    /\ saved = NotRun

CleanApply ==
    /\ saved = NotRun
    /\ \E s \in SaveOutcomes(Len(Filter(structure.atoms, chain_id))) :
          saved' = clean_pdb(structure, Absent, chain_id, s)
    /\ UNCHANGED <<structure, chain_id, receptorVars, ligandVars>>

----------------------------------------------------------------------------
(* create_ligands.py *)

BIOTIN == "C1[C@H]2[C@@H]([C@@H](S1)CCCCC(=O)O)NC(=O)N2"

SEROTONIN == "NCCc1c[nH]c2ccc(O)cc12"

\* a string with an unclosed ring bond, which Chem.MolFromSmiles rejects
BAD_SMILES == "NCCc1c[nH]c2ccc(O)cc1"

LigandKeys == <<"biotin", "serotonin">>

LigandNames == { LigandKeys[i] : i \in DOMAIN LigandKeys }

TableSmiles(name) == IF name = "biotin" THEN BIOTIN ELSE SEROTONIN

NoFile == [exists |-> FALSE, mols |-> <<>>]

NoConf == [kind |-> "none", draw |-> 0]

SeededConf == [kind |-> "seeded", draw |-> 0]

RandomConf(k) == [kind |-> "random", draw |-> k]

NoneMol == [none |-> TRUE, name |-> "", conf |-> NoConf, geom |-> "none"]

\* Chem.MolFromSmiles: None for a string that does not parse; a fresh molecule
\* has no conformer and no _Name property
MolFromSmiles(smiles) ==
    IF smiles \in {BIOTIN, SEROTONIN}
    THEN [none |-> FALSE, name |-> "", conf |-> NoConf, geom |-> "none"]
    ELSE NoneMol

\* AllChem.EmbedMolecule(mol, params) with params.randomSeed = 42: the same
\* coordinates, or the same failure (-1), at every call for a molecule
EmbedSeeded(mol, name) ==
    IF name \in seeded
    THEN [mol |-> [mol EXCEPT !.conf = SeededConf, !.geom = "embedded"], result |-> 0]
    ELSE [mol |-> mol, result |-> -1]

\* AllChem.EmbedMolecule(mol, AllChem.ETKDGv3()): no seed, so draw e2 of the
\* coordinates (0: the embedding failed)
EmbedDefault(mol, e2) ==
    IF e2 = 0
    THEN [mol |-> mol, result |-> -1]
    ELSE [mol |-> [mol EXCEPT !.conf = RandomConf(e2), !.geom = "embedded"], result |-> 0]

\* the fallback attempted whatever the first embedding returned
FallbackNeeded_Always(result) == TRUE

FallbackNeeded(result) == result = -1

MmffOutcomes == {"converged", "not_converged", "no_params", "raises"}

\* What AllChem.MMFFOptimizeMolecule(mol, maxIters=500) does: without MMFF
\* parameters for the molecule it returns -1; without a conformer it raises;
\* on the seeded conformer it does what it always does for this molecule; on
\* drawn coordinates it converges (0) or runs out of iterations (1)
OptOutcomes(mol, name) ==
    CASE mmff[name] = "no_params" -> {"no_params"}
      [] mol.conf.kind = "none" -> {"raises"}
      [] mol.conf.kind = "seeded" \/ mmff[name] = "raises" -> {mmff[name]}
      [] OTHER -> {"converged", "not_converged"}

MMFFOptimizeMolecule(mol, outcome) ==
    [ mol |-> CASE outcome = "converged" -> [mol EXCEPT !.geom = "minimised"]
                [] outcome = "not_converged" -> [mol EXCEPT !.geom = "partly_minimised"]
                [] OTHER -> mol,
      raised |-> outcome = "raises" ]

\* the name set on nothing (or after the write)
SetProp_Dropped(mol, name) == mol

SetProp(mol, name) == [mol EXCEPT !.name = name]

\* Chem.SDWriter(output_path); writer.write(mol); writer.close()
SDWriter(mol) ==
    [exists |-> TRUE, mols |-> << [name |-> mol.name, conf |-> mol.conf, geom |-> mol.geom] >>]

\* lines 38-49: optimize inside try/except, name, write, return True
OptimizeAndWrite(mol, name, first, second, outcome) ==
    LET o == MMFFOptimizeMolecule(mol, outcome)
        fellBack == second # "not_called"
    IN [ file |-> SDWriter(SetProp(o.mol, name)),
         ret |-> TRUE,
         out |-> (IF fellBack THEN {"Warning: Could not embed"} ELSE {})
                 \cup (IF o.raised THEN {"Warning: MMFF optimization failed"} ELSE {}),
         first |-> first,
         second |-> second,
         embeds |-> IF fellBack THEN 2 ELSE 1,
         opt |-> outcome,
         writes |-> 1 ]

\* generate_3d_sdf opening the writer before it parses the SMILES string
generate_3d_sdf_WriterFirst(smiles, name, old, e2, r) ==
    LET m0 == MolFromSmiles(smiles)
    IN IF m0.none
       THEN [ file |-> [exists |-> TRUE, mols |-> <<>>], ret |-> FALSE,
              out |-> {"Error: Invalid SMILES"},
              first |-> "not_called", second |-> "not_called", embeds |-> 0,
              opt |-> "not_called", writes |-> 0 ]
       ELSE LET e1 == EmbedSeeded(m0, name)
                fb == FallbackNeeded(e1.result)
                f2 == EmbedDefault(e1.mol, e2)
                m2 == IF fb THEN f2.mol ELSE e1.mol
                second == IF ~fb THEN "not_called"
                          ELSE IF f2.result = -1 THEN "failed" ELSE "ok"
            IN OptimizeAndWrite(m2, name, IF e1.result = -1 THEN "failed" ELSE "ok",
                                second, r)

\* generate_3d_sdf(smiles, name, output_path); old is the file at output_path,
\* e2 the draw of the unseeded embedding, r the optimizer's outcome
generate_3d_sdf(smiles, name, old, e2, r) ==
    LET m0 == MolFromSmiles(smiles)
    IN IF m0.none
       THEN [ file |-> old, ret |-> FALSE, out |-> {"Error: Invalid SMILES"},
              first |-> "not_called", second |-> "not_called", embeds |-> 0,
              opt |-> "not_called", writes |-> 0 ]
       ELSE LET e1 == EmbedSeeded(m0, name)
                fb == FallbackNeeded(e1.result)
                f2 == EmbedDefault(e1.mol, e2)
                m2 == IF fb THEN f2.mol ELSE e1.mol
                second == IF ~fb THEN "not_called"
                          ELSE IF f2.result = -1 THEN "failed" ELSE "ok"
            IN OptimizeAndWrite(m2, name, IF e1.result = -1 THEN "failed" ELSE "ok",
                                second, r)

\* The outcomes generate_3d_sdf can have for this item
OptChoices(smiles, name, e2) ==
    LET m0 == MolFromSmiles(smiles)
        e1 == EmbedSeeded(m0, name)
        m2 == IF FallbackNeeded(e1.result) THEN EmbedDefault(e1.mol, e2).mol ELSE e1.mol
    IN OptOutcomes(m2, name)

NoCall == [name |-> "", out |-> {}, first |-> "not_called", second |-> "not_called",
           embeds |-> 0, opt |-> "not_called", writes |-> 0, ret |-> FALSE]

LigandIdle ==
    /\ LIGANDS = [n \in LigandNames |-> TableSmiles(n)]
    /\ seeded = LigandNames
    /\ mmff = [n \in LigandNames |-> "converged"]
    /\ sdf = [n \in LigandNames |-> NoFile]
    /\ lpc = "idle"
    /\ lidx = 1
    /\ lruns = 0
    /\ lvisited = {}
    /\ lres = [n \in LigandNames |-> "none"]
    /\ call = NoCall

\* The table as shipped, or with an entry replaced by a string that does not
\* parse; the RDKit behaviour for each molecule is fixed for the behaviour
LigandInit ==
    /\ LIGANDS \in [LigandNames -> {BIOTIN, SEROTONIN, BAD_SMILES}]
    /\ \A n \in LigandNames : LIGANDS[n] \in {TableSmiles(n), BAD_SMILES}
    /\ seeded \in SUBSET LigandNames
    /\ mmff \in [LigandNames -> MmffOutcomes]
    /\ \A n \in LigandNames :
          LIGANDS[n] = BAD_SMILES => n \in seeded /\ mmff[n] = "converged"
    /\ sdf = [n \in LigandNames |-> NoFile]
    /\ lpc = "idle"
    /\ lidx = 1
    /\ lruns = 0
    /\ lvisited = {}
    /\ lres = [n \in LigandNames |-> "none"]
    /\ call = NoCall

LigandStart ==
    /\ lpc \in {"idle", "done"}
    /\ lruns < MaxRuns
    /\ lpc' = "loop"
    /\ lidx' = 1
    /\ lruns' = lruns + 1
    /\ lvisited' = {}
    /\ call' = NoCall
    /\ UNCHANGED <<LIGANDS, seeded, mmff, sdf, lres>>
    /\ UNCHANGED <<receptorVars, cleanVars>>

\* One pass of the for loop body, lines 55-65
LigandProcess ==
    /\ lpc = "loop"
    /\ lidx <= Len(LigandKeys)
    /\ LET name == LigandKeys[lidx]
           smiles == LIGANDS[name]
       IN \E e2 \in 0 .. RandomCoords :
          \E r \in OptChoices(smiles, name, e2) :
             LET g == generate_3d_sdf(smiles, name, sdf[name], e2, r)
             IN /\ sdf' = [sdf EXCEPT ![name] = g.file]
                /\ lres' = [lres EXCEPT ![name] = IF g.ret THEN "saved" ELSE "failed"]
                /\ call' = [name |-> name,
                            out |-> g.out \cup (IF g.ret THEN {"Saved"} ELSE {"FAILED to generate"}),
                            first |-> g.first, second |-> g.second,
                            embeds |-> g.embeds, opt |-> g.opt,
                            writes |-> g.writes, ret |-> g.ret]
                /\ lvisited' = lvisited \cup {name}
    /\ lidx' = lidx + 1
    /\ UNCHANGED <<LIGANDS, seeded, mmff, lpc, lruns>>
    /\ UNCHANGED <<receptorVars, cleanVars>>

LigandFinish ==
    /\ lpc = "loop"
    /\ lidx > Len(LigandKeys)
    /\ lpc' = "done"
    /\ call' = NoCall
    /\ UNCHANGED <<LIGANDS, seeded, mmff, sdf, lidx, lruns, lvisited, lres>>
    /\ UNCHANGED <<receptorVars, cleanVars>>

----------------------------------------------------------------------------
(* Specifications *)

Init == ReceptorInit /\ CleanIdle /\ LigandIdle

Next == StartRun \/ ProcessRecord \/ Finish

Spec == Init /\ [][Next]_vars

InitClean == ReceptorInit /\ CleanInit /\ LigandIdle

NextClean == CleanApply

SpecClean == InitClean /\ [][NextClean]_vars

InitLigand == ReceptorInit /\ CleanIdle /\ LigandInit

NextLigand == LigandStart \/ LigandProcess \/ LigandFinish

SpecLigand == InitLigand /\ [][NextLigand]_vars

----------------------------------------------------------------------------
(* Properties of the receptor script, under Spec *)

NameAt(i) == RECEPTORS[i].name

IdAt(i) == RECEPTORS[i].pdb_id

FetchIssued(p) == fetches'[p] > fetches[p]

\* C1: a record whose raw file exists when the loop reaches it is not fetched,
\* and an identifier whose fetch once succeeded is never fetched again by any
\* later run.
C1_NoFetchWhenCached ==
    [][\A p \in PdbIds : FetchIssued(p) => ~raw[p].exists /\ p \notin okFetched]_vars

C1_Witness ==
    /\ runs = 2
    /\ pc = "done"
    /\ okFetched = PdbIds
    /\ \A p \in PdbIds : fetches[p] = 1

\* C8: an existing raw file is never written, truncated, replaced or deleted by
\* any step, whatever its content: its presence alone makes the loop reuse it
\* (also a file a broken transfer left behind).
C8_RawImmutable ==
    [][\A p \in PdbIds :
          raw[p].exists => raw'[p] = raw[p] /\ ~FetchIssued(p)]_vars

C8_Witness ==
    /\ runs = 2
    /\ raw["7E2X"].exists /\ raw["7E2X"].torn
    /\ fetches["7E2X"] = 1
    /\ res["serotonin_5HT1A"] = "parse_failed"
    /\ "Already downloaded" \in log

NoFileFailures == {"unreachable", "invalid"}

\* C3: when the fetch of a record fails because the host is unreachable or the
\* identifier invalid, the step leaves no raw and no cleaned file for the record
\* and changes no file of another record; at the end of the run the record
\* still has neither file.
C3_FailedFetchLeavesNothing ==
    [][\A i \in DOMAIN RECEPTORS :
          /\ (FetchIssued(IdAt(i)) /\ res'[NameAt(i)] \in NoFileFailures)
                => /\ ~raw'[IdAt(i)].exists
                   /\ ~clean'[NameAt(i)].exists
                   /\ \A j \in DOMAIN RECEPTORS \ {i} :
                         raw'[IdAt(j)] = raw[IdAt(j)] /\ clean'[NameAt(j)] = clean[NameAt(j)]
          /\ (pc' \in {"done", "crashed"} /\ NameAt(i) \in visited'
                 /\ res'[NameAt(i)] \in NoFileFailures)
                => ~raw'[IdAt(i)].exists /\ ~clean'[NameAt(i)].exists]_vars

C3_Witness ==
    /\ runs = 2
    /\ pc = "done"
    /\ res["serotonin_5HT2A"] = "invalid"
    /\ fetches["6WHA"] = 2
    /\ ~raw["6WHA"].exists /\ ~clean["serotonin_5HT2A"].exists
    /\ raw["7E2X"] = ServerFile("7E2X") /\ clean["serotonin_5HT1A"].exists
    /\ res["serotonin_5HT2B"] = "saved"

\* C4: every failure of a loop body is caught and logged: no exception leaves
\* the loop body, and a run ends only at "Done!" with every record reached.
C4_LoopReachesEveryRecord ==
    /\ pc # "crashed"
    /\ pc = "done" => visited = Names

\* C7 as claimed: a second run leaves the file system as the first run left
\* it (both runs going through the whole table, no exception raised).
C7_RerunChangesNothing ==
    [][(/\ runs >= 2
        /\ pc = "loop"
        /\ \A n \in Names : res[n] \notin {"none", "raised"} /\ res'[n] # "raised")
          => raw' = raw /\ clean' = clean]_vars

\* C7: a record that the previous loop body executed for it saved, and that the
\* next one saves again, has the same raw and cleaned file afterwards (the raw
\* file is reused, the cleaned file regenerated with the same content); no step
\* removes a file or touches another record's files.
C7_SavedTwiceSameFiles ==
    [][\A i \in DOMAIN RECEPTORS :
          /\ (idx = i /\ idx' = i + 1 /\ res[NameAt(i)] = "saved" /\ res'[NameAt(i)] = "saved")
                => raw'[IdAt(i)] = raw[IdAt(i)] /\ clean'[NameAt(i)] = clean[NameAt(i)]
          /\ (pc = "loop" /\ idx # i)
                => raw'[IdAt(i)] = raw[IdAt(i)] /\ clean'[NameAt(i)] = clean[NameAt(i)]
          /\ raw[IdAt(i)].exists => raw'[IdAt(i)].exists
          /\ clean[NameAt(i)].exists => clean'[NameAt(i)].exists]_vars

C7_Witness ==
    /\ runs = 2
    /\ pc = "done"
    /\ \A i \in DOMAIN RECEPTORS :
          /\ res[NameAt(i)] = "saved"
          /\ fetches[IdAt(i)] = 1
          /\ raw[IdAt(i)] = ServerFile(IdAt(i))
          /\ clean[NameAt(i)].atoms # <<>>

----------------------------------------------------------------------------
(* Properties of clean_pdb, under SpecClean *)

Wanted(a, c) == a.chain = c /\ a.het = " "

KeptIndices == { i \in 1 .. Len(structure.atoms) : Wanted(structure.atoms[i], chain_id) }

NthKept(j) == CHOOSE i \in KeptIndices : Cardinality({ k \in KeptIndices : k <= i }) = j

\* C2: the atoms clean_pdb writes are, in file order, exactly the atoms of the
\* selected chain whose residue hetero-flag is blank; whatever happens, no atom
\* of another chain or of a water or heteroatom residue is written.
C2_CleanedAtomsExact ==
    /\ \A j \in 1 .. Len(saved.file.atoms) : Wanted(saved.file.atoms[j], chain_id)
    /\ saved.ret =>
          /\ saved.file.exists
          /\ Len(saved.file.atoms) = Cardinality(KeptIndices)
          /\ \A j \in 1 .. Len(saved.file.atoms) :
                saved.file.atoms[j] = structure.atoms[NthKept(j)]

C2_Witness ==
    /\ saved.ret
    /\ Len(saved.file.atoms) = 1
    /\ \E i, j \in 1 .. Len(structure.atoms) :
          /\ structure.atoms[i].chain # chain_id
          /\ structure.atoms[i].het = " "
          /\ structure.atoms[j].chain = chain_id
          /\ structure.atoms[j].het = "W"

----------------------------------------------------------------------------
(* Properties of the ligand script, under SpecLigand *)

ItemStep == lidx' = lidx + 1

\* C5: for an item whose SMILES string does not parse, generate_3d_sdf prints
\* the error, returns False and leaves every file as it was; the loop goes on,
\* and a run ends with every item of the table reached.
C5_InvalidSmilesNoFile ==
    [][/\ (ItemStep /\ LIGANDS[LigandKeys[lidx]] = BAD_SMILES)
            => /\ "Error: Invalid SMILES" \in call'.out
               /\ ~call'.ret
               /\ call'.writes = 0
               /\ lres'[LigandKeys[lidx]] = "failed"
               /\ sdf' = sdf
               /\ lpc' = "loop"
       /\ lpc' = "done" => lvisited' = LigandNames]_vars

C5_Witness ==
    /\ lpc = "done"
    /\ LIGANDS["biotin"] = BAD_SMILES
    /\ lres["biotin"] = "failed"
    /\ ~sdf["biotin"].exists
    /\ lres["serotonin"] = "saved"
    /\ sdf["serotonin"].exists

\* C6: for a record of the table as shipped, generate_3d_sdf writes once and
\* <key>.sdf then holds exactly one molecule, whose name property is the key.
C6_OneNamedMolecule ==
    \A n \in LigandNames :
       /\ lres[n] = "saved" =>
             /\ sdf[n].exists
             /\ Len(sdf[n].mols) = 1
             /\ sdf[n].mols[1].name = n
       /\ (n \in lvisited /\ LIGANDS[n] = TableSmiles(n)) => lres[n] = "saved"
       /\ (call.name = n /\ call.ret) => call.writes = 1

C6_Witness ==
    /\ lruns = 2
    /\ lpc = "done"
    /\ \A n \in LigandNames :
          /\ LIGANDS[n] = TableSmiles(n)
          /\ sdf[n].exists
          /\ sdf[n].mols[1].name = n

\* C9: the unseeded embedding is attempted exactly when the seeded one
\* reported failure, and once; its result is not looked at: whenever the
\* SMILES string parsed, the optimizer is called, the file is written and True
\* returned, also when both embeddings failed.
C9_FallbackOnceResultIgnored ==
    call.name # "" =>
       /\ (call.second # "not_called") <=> (call.first = "failed")
       /\ call.embeds = (IF call.first = "failed" THEN 2
                         ELSE IF call.first = "ok" THEN 1 ELSE 0)
       /\ LIGANDS[call.name] # BAD_SMILES =>
             /\ call.first # "not_called"
             /\ call.opt # "not_called"
             /\ call.writes = 1
             /\ call.ret
             /\ sdf[call.name].exists

C9_Witness ==
    /\ call.name = "serotonin"
    /\ call.first = "failed"
    /\ call.second = "failed"
    /\ call.ret
    /\ sdf["serotonin"].exists
    /\ sdf["serotonin"].mols[1].conf = NoConf

OptFailures == {"raises", "not_converged", "no_params"}

\* C10: on every optimization failure (the optimizer raises, or returns a
\* failure or non-convergence code) the warning is printed, the conformer is
\* written and True returned.
C10_OptFailureWarned ==
    (call.name # "" /\ call.opt \in OptFailures) =>
       /\ "Warning: MMFF optimization failed" \in call.out
       /\ call.writes = 1
       /\ call.ret

\* The ligand half of C7: an item saved from its seeded embedding at two
\* consecutive calls gets the same file both times.
C7_LigandSavedTwiceSameFile ==
    [][(ItemStep /\ lres[LigandKeys[lidx]] = "saved" /\ call'.ret /\ call'.first = "ok")
          => sdf'[LigandKeys[lidx]] = sdf[LigandKeys[lidx]]]_vars

\* The ligand half of C7 as claimed: a second run leaves every file as it was.
C7_LigandRerunChangesNothing ==
    [][(lruns >= 2 /\ lpc = "loop") => sdf' = sdf]_vars

====
